---------------------------- MODULE Spec2Model ----------------------------
(***************************************************************************)
(* FanPico firmware, src/src/fanpico.c: the main loop of core 0 (main),    *)
(* the boot sequence (setup), the output update (update_outputs) and the   *)
(* command console.                                                        *)
(*                                                                         *)
(* Units: time is in milliseconds; duty cycles (%), temperatures (C) and   *)
(* frequencies (Hz) are fixed-point numbers in hundredths, so that the     *)
(* thresholds 0.1 and 0.5 of the source are the integers 10 and 50.        *)
(* Channels are numbered from 1 (the source counts from 0).                *)
(***************************************************************************)
EXTENDS Integers, Sequences, FiniteSets, TLC

VARIABLES
    pc,             \* position of core 0 in main()
    now,            \* the hardware clock, get_absolute_time(), in ms
    cfg,            \* the configuration read_config() loaded (cfg->...)
    st,             \* system_state (struct fanpico_state)
    pwm_hw,         \* duty last passed to set_pwm_duty_cycle, per fan
    tacho_hw,       \* frequency last passed to set_tacho_output_freq, per mbfan
    t_network, t_led, t_display, t_poll_pwm, t_temp, t_poll_tacho,
    t_set_outputs,  \* the last-fire timestamps of main()
    t_last,         \* main(): t_last
    led_state,      \* main(): led_state
    change,         \* main(): change
    input_buf,      \* main(): the cells of input_buf written so far
    i_ptr,          \* main(): i_ptr
    rx,             \* bytes queued in stdio, not yet read by getchar_timeout_us
    script,         \* the byte stream a console run is fed at its start
    dispatched,     \* the lines handed to process_command, in order
    last_echo,      \* what the console printed for the byte it read last
    oob,            \* number of writes outside input_buf so far
    ref,            \* the line editor of the specification, run in lock-step
    arrivals,       \* bytes other than control bytes that have arrived one by one
    drv_calls,      \* output driver calls made in this iteration (or by setup)
    fired,          \* the steps of this iteration that ran, in order
    last_fire,      \* per timer: when time_passed last fired on it, -1 before that
    gap,            \* if the output timer fired in this iteration and had fired
                    \* before: the ms between the two fires; otherwise -1
    accepted,       \* the sample kinds a sampling task accepted this iteration
    sampled,        \* the duty (rounded) and the temperature a task read last
    upd_calls,      \* invocations of update_outputs in this iteration
    wd_enabled,     \* calls of watchdog_enable so far
    wd_updates,     \* calls of watchdog_update in this iteration
    wd_last,        \* hardware watchdog: when it was armed or refreshed last, -1 if unarmed
    caused_reboot,  \* hardware: what watchdog_enable_caused_reboot() answers
    rebooted_by_watchdog,   \* the global rebooted_by_watchdog
    boots,          \* resets of the board so far
    usb_at,         \* the poll of this boot at which stdio_usb_connected() first
                    \* answers true (beyond UsbPolls: not during the wait)
    usb_i,          \* setup(): i, in the wait for USB serial
    usb_polls,      \* calls of stdio_usb_connected() in this boot
    usb_sleeps,     \* calls of sleep_ms(250) in this boot
    pc1,            \* position of core 1 in core1_main()
    lockout_victim, \* core 1 has called multicore_lockout_victim_init()
    lockout,        \* core 0 holds the multicore lockout
    tacho_sig,      \* the frequency of the tacho signal at the input of fan 1
    tacho_in,       \* the frequency read_tacho_inputs() measured last
    t_tick,         \* core1_main(): t_tick
    cap             \* the samples core 1 has taken: in all (n) and since the
                    \* last lockout ended (since), and the lockouts ended (cycles)

timerVars   == <<t_network, t_led, t_display, t_poll_pwm, t_temp, t_poll_tacho,
                 t_set_outputs, t_last>>
consoleVars == <<input_buf, i_ptr, rx, script, arrivals, dispatched, last_echo, oob,
                 ref>>
outVars     == <<pwm_hw, tacho_hw, drv_calls, upd_calls>>
ghostVars   == <<fired, last_fire, gap, accepted, sampled>>
wdVars      == <<wd_enabled, wd_updates>>
bootVars    == <<caused_reboot, rebooted_by_watchdog, boots>>
usbVars     == <<usb_at, usb_i, usb_polls, usb_sleeps>>
captureVars == <<lockout_victim, lockout, tacho_sig, tacho_in, t_tick, cap>>
coreVars    == <<pc1, captureVars>>
hwVars      == <<wd_last, caused_reboot, rebooted_by_watchdog, boots, usbVars,
                 coreVars>>
\* what core 0, the boot and the console work on
core0Vars   == <<pc, now, cfg, st, timerVars, led_state, change, consoleVars,
                 outVars, ghostVars, wdVars, wd_last, bootVars, usbVars>>
vars == <<pc, now, cfg, st, timerVars, led_state, change, consoleVars,
          outVars, ghostVars, wdVars, hwVars>>

----------------------------------------------------------------------------
(* Bounds of the model *)

\* the clock stops advancing at MaxTime
MaxTime == 12000
\* bytes arriving one by one: at most MaxQueue are queued unread, and at
\* most MaxArrivals of them are not control bytes
MaxQueue == 1
MaxArrivals == 1
\* console runs are fed every byte stream of up to MaxScriptLen bytes
MaxScriptLen == 4
\* boot runs: the board is reset at most MaxBoots times, and the loop runs
\* until the clock of a boot has reached BootHorizon
MaxBoots == 2
BootHorizon == 2500
\* two-core runs: the loop runs until the clock has reached CoresHorizon; the
\* samples since a lockout are counted up to MaxSamples, the lockouts up to
\* MaxLockouts
CoresHorizon == 2500
MaxSamples == 2
MaxLockouts == 2

(* Program constants *)

\* number of fan outputs, motherboard fan inputs and temperature sensors
FAN_COUNT == 1
MBFAN_COUNT == 2
SENSOR_COUNT == 1

\* sizeof(input_buf)
BufSize == 1024

Fans    == 1..FAN_COUNT
MbFans  == 1..MBFAN_COUNT
Sensors == 1..SENSOR_COUNT

\* the intervals handed to time_passed, in ms, by timer
Interval ==
    [t_network |-> 1, t_led |-> 1000, t_display |-> 2000, t_poll_pwm |-> 1500,
     t_temp |-> 10000, t_poll_tacho |-> 2000, t_set_outputs |-> 3000]
Timers == DOMAIN Interval

\* thresholds handed to check_for_change, in hundredths
OutputThreshold == 10
SampleThreshold == 50

\* how long one pass of the main loop may take, in ms
Deltas == {0, 1500}
\* watchdog_enable(WATCHDOG_REBOOT_DELAY, 1): the timeout of the watchdog, ms
WATCHDOG_REBOOT_DELAY == 15000
\* core1_main(): time_passed(&t_tick, 60000)
TickInterval == 60000
\* setup(): the wait for USB serial polls at most UsbPolls times and sleeps
\* UsbSleep ms after a poll that found no connection; the rest of setup()
\* takes no time
UsbPolls == 10
UsbSleep == 250
\* when the USB console connects during a boot of Spec: at the 5th poll,
\* 1000 ms after the reset
UsbAtBoot == {5}

\* raw samples of the inputs, in hundredths
DutySamples == {0, 49, 50}
TempSamples == {2000, 2050, 2100}
FreqSamples == {0, 2500}

\* configurations read_config() may load: the LED mode, the echo flag, and
\* what a fan follows (the duty of motherboard fan 1 or the temperature of
\* sensor 1, through a linear curve of slope 1/fan_div)
Configs ==
    { [led_mode |-> 0, local_echo |-> TRUE,  fan_src |-> "mbfan",  fan_div |-> 20],
      [led_mode |-> 1, local_echo |-> FALSE, fan_src |-> "mbfan",  fan_div |-> 10],
      [led_mode |-> 2, local_echo |-> TRUE,  fan_src |-> "sensor", fan_div |-> 10] }

\* console bytes
BS1 == 127
BS2 == 8
LF == 10
CR == 13
NUL == 0
XFF == 255
IsControl(c)    == c = XFF \/ c = NUL
IsBackspace(c)  == c = BS1 \/ c = BS2
IsTerminator(c) == c = LF \/ c = CR
IsData(c)       == ~IsControl(c) /\ ~IsBackspace(c) /\ ~IsTerminator(c)

Abs(x) == IF x < 0 THEN -x ELSE x

----------------------------------------------------------------------------
(* Collaborators that live outside src/ *)

\* check_for_change(oldval, newval, threshold): |new - old| >= threshold
check_for_change(oldval, newval, threshold) == Abs(newval - oldval) >= threshold

\* time_passed(&t, ms) at time t_now: ms have elapsed since t.  (When it
\* answers true it also sets t to t_now; the callers below write that.)
time_passed(t, ms, t_now) == t_now - t >= ms

\* roundf() on a non-negative value in hundredths
roundf(x) == ((x + 50) \div 100) * 100

\* calculate_pwm_duty(state, config, i): the duty fan i is to run at, here
\* a linear curve over the source the configuration names
calculate_pwm_duty(s, c, i) ==
    (IF c.fan_src = "mbfan" THEN s.mbfan_duty[1] ELSE s.temp[1]) \div c.fan_div

\* calculate_tacho_freq(state, config, i): the frequency reported to
\* motherboard fan i, here the frequency of fan 1
calculate_tacho_freq(s, c, i) == s.fan_freq[1]

----------------------------------------------------------------------------
(* clear_state and setup *)

clear_state ==
    [mbfan_duty |-> [i \in MbFans |-> 0],
     mbfan_freq |-> [i \in MbFans |-> 0],
     fan_duty   |-> [i \in Fans |-> 0],
     fan_freq   |-> [i \in Fans |-> 0],
     temp       |-> [i \in Sensors |-> 0]]

\* the driver calls setup() makes: set_pwm_duty_cycle(i, 0) for every fan
SetupCalls ==
    [i \in Fans |-> [drv |-> "pwm", ch |-> i, v |-> 0,
                     prev |-> clear_state.fan_duty[i], by |-> "setup"]]

NoFire == [k \in Timers |-> -1]
\* no task has read a sample: the values of clear_state
NoSample == [duty |-> [i \in MbFans |-> 0], temp |-> [i \in Sensors |-> 0]]
NoSamples == [n |-> 0, since |-> 0, cycles |-> 0]

\* the board comes out of reset and enters main(): the clock is at 0, the
\* statics have their initial values, nothing is queued or armed
Entry ==
    /\ pc = "usb_wait"
    /\ now = 0
    /\ st = clear_state
    /\ pwm_hw = [i \in Fans |-> 0]
    /\ tacho_hw = [i \in MbFans |-> -1]
    /\ t_network = 0 /\ t_led = 0 /\ t_display = 0 /\ t_poll_pwm = 0
    /\ t_temp = 0 /\ t_poll_tacho = 0 /\ t_set_outputs = 0 /\ t_last = 0
    /\ led_state = 0
    /\ change = 0
    /\ input_buf = <<>>
    /\ i_ptr = 0
    /\ rx = <<>>
    /\ arrivals = 0
    /\ dispatched = <<>>
    /\ last_echo = ""
    /\ oob = 0
    /\ ref = [buf |-> <<>>, lines |-> <<>>, covered |-> TRUE]
    /\ drv_calls = <<>>
    /\ fired = <<>>
    /\ last_fire = NoFire
    /\ gap = -1
    /\ accepted = {}
    /\ sampled = NoSample
    /\ upd_calls = 0
    /\ wd_enabled = 0
    /\ wd_updates = 0
    /\ wd_last = -1
    /\ rebooted_by_watchdog = FALSE
    /\ usb_i = 0
    /\ usb_polls = 0
    /\ usb_sleeps = 0
    /\ pc1 = "off"
    /\ lockout_victim = FALSE
    /\ lockout = FALSE
    /\ tacho_in = 0
    /\ t_tick = 0
    /\ cap = NoSamples

\* power is applied: the reset was not caused by the watchdog
Init ==
    /\ Entry
    /\ cfg \in Configs
    /\ script = <<>>
    /\ usb_at \in UsbAtBoot
    /\ tacho_sig = 0
    /\ caused_reboot = FALSE
    /\ boots = 0

\* a variant wait that ends only when the poll finds a connection
UsbPollUntilConnected ==
    /\ pc = "usb_wait"
    /\ usb_i' = usb_i + 1
    /\ usb_polls' = usb_polls + 1
    /\ IF usb_polls' >= usb_at
         THEN /\ pc' = "setup"
              /\ UNCHANGED <<now, usb_sleeps>>
         ELSE /\ now' = now + UsbSleep
              /\ usb_sleeps' = usb_sleeps + 1
              /\ pc' = "usb_wait"
    /\ UNCHANGED <<cfg, st, outVars, timerVars, led_state, change, consoleVars,
                   ghostVars, wdVars, wd_last, bootVars, usb_at, coreVars>>

\* setup(): one turn of while (i++ < 10) of the wait for USB serial.  The
\* loop ends when i has reached 10 or when the poll finds a connection;
\* otherwise it sleeps 250 ms.
UsbPoll ==
    /\ pc = "usb_wait"
    /\ usb_i' = usb_i + 1
    /\ IF usb_i < UsbPolls
         THEN /\ usb_polls' = usb_polls + 1
              /\ IF usb_polls' >= usb_at
                   THEN /\ pc' = "setup"
                        /\ UNCHANGED <<now, usb_sleeps>>
                   ELSE /\ now' = now + UsbSleep
                        /\ usb_sleeps' = usb_sleeps + 1
                        /\ pc' = "usb_wait"
         ELSE /\ pc' = "setup"
              /\ UNCHANGED <<now, usb_polls, usb_sleeps>>
    /\ UNCHANGED <<cfg, st, outVars, timerVars, led_state, change, consoleVars,
                   ghostVars, wdVars, wd_last, bootVars, usb_at, coreVars>>

\* a variant of setup() that does not ask the watchdog for the cause of the reset
SetupWithoutCause ==
    /\ pc = "setup"
    /\ UNCHANGED now
    /\ st' = clear_state
    /\ pwm_hw' = [i \in Fans |-> 0]
    /\ drv_calls' = SetupCalls
    /\ pc' = "launch"
    /\ UNCHANGED <<cfg, tacho_hw, upd_calls, timerVars, led_state, change,
                   consoleVars, ghostVars, wdVars, hwVars>>

\* the rest of setup(), with clear_state(st) of main() before it: the cause
\* of the reset is recorded, the state is zeroed, the hardware initialised
\* and every fan output programmed to 0
Setup ==
    /\ pc = "setup"
    /\ UNCHANGED now
    /\ st' = clear_state
    /\ pwm_hw' = [i \in Fans |-> 0]
    /\ drv_calls' = SetupCalls
    /\ rebooted_by_watchdog' = IF caused_reboot THEN TRUE ELSE rebooted_by_watchdog
    /\ pc' = "launch"
    /\ UNCHANGED <<cfg, tacho_hw, upd_calls, timerVars, led_state, change,
                   consoleVars, ghostVars, wdVars, wd_last, caused_reboot, boots,
                   usbVars, coreVars>>

\* main(): core 1 is launched, the watchdog armed, t_last and t_display set
Launch ==
    /\ pc = "launch"
    /\ wd_enabled' = wd_enabled + 1
    /\ wd_last' = now
    /\ t_last' = now
    /\ t_display' = t_last'
    /\ pc' = "loop"
    /\ pc1' = "start"
    /\ UNCHANGED <<now, cfg, st, t_network, t_led, t_poll_pwm, t_temp,
                   t_poll_tacho, t_set_outputs, led_state, change,
                   consoleVars, outVars, ghostVars, wd_updates, bootVars, usbVars,
                   captureVars>>

----------------------------------------------------------------------------
(* One pass of while (1) in main(), up to the console pump.  The steps are
   operators on m, the locals of main() together with the state and the
   hardware they act on; Iterate applies them in the order of the source. *)

Main ==
    [now |-> now, st |-> st, pwm_hw |-> pwm_hw, tacho_hw |-> tacho_hw,
     t_network |-> t_network, t_led |-> t_led, t_display |-> t_display,
     t_poll_pwm |-> t_poll_pwm, t_temp |-> t_temp,
     t_poll_tacho |-> t_poll_tacho, t_set_outputs |-> t_set_outputs,
     t_last |-> t_last, led_state |-> led_state, change |-> change,
     drv_calls |-> drv_calls, fired |-> fired, last_fire |-> last_fire, gap |-> gap,
     accepted |-> accepted, sampled |-> sampled, upd_calls |-> upd_calls,
     wd_updates |-> wd_updates]

\* a variant gate that fires as soon as any time has passed
DueIgnoringInterval(m, t) == m.now > m[t]

\* time_passed(&t, ms) answers true on timer t
Due(m, t) == time_passed(m[t], Interval[t], m.now)

\* time_passed(&t, ms) has answered true: t is set to the current time
TimerFired(m, t) ==
    [m EXCEPT ![t] = m.now,
              !.fired = Append(@, t),
              !.last_fire[t] = m.now]

\* top of the loop: change = 0, t_now read, t_last updated.  d is the time
\* that has passed since the previous pass read the clock.
LoopTop(m, d) ==
    [m EXCEPT !.now = @ + d,
              !.change = 0,
              !.t_last = m.now + d,
              !.fired = <<>>,
              !.accepted = {},
              !.gap = -1,
              !.drv_calls = <<>>,
              !.upd_calls = 0,
              !.wd_updates = 0]

\* if (time_passed(&t_network, 1)) network_poll();
NetworkPoll(m) ==
    IF Due(m, "t_network") THEN TimerFired(m, "t_network") ELSE m

\* the LED state a firing LED task computes from cfg->led_mode
NextLed(c, led) ==
    IF c.led_mode = 0 THEN (IF led > 0 THEN 0 ELSE 1)
    ELSE IF c.led_mode = 1 THEN 1
    ELSE 0

\* Toggle LED every 1000ms
LedToggle(m, c) ==
    IF Due(m, "t_led")
      THEN [TimerFired(m, "t_led") EXCEPT !.led_state = NextLed(c, @)]
      ELSE m

\* Update display every 2000ms
DisplayRefresh(m) ==
    IF Due(m, "t_display") THEN TimerFired(m, "t_display") ELSE m

\* the channels whose sample passes the change gate against the stored value
Changed(stored, sample, ids) ==
    {i \in ids : check_for_change(stored[i], sample[i], SampleThreshold)}

\* the stored values after the accepted samples have been written
Store(stored, sample, ids) ==
    [i \in ids |-> IF i \in Changed(stored, sample, ids) THEN sample[i] ELSE stored[i]]

\* a variant body that stores an accepted duty but leaves change alone
PollPwmBodyNoFlag(m, raw) ==
    LET new_duty == [i \in MbFans |-> roundf(raw[i])]
        hit == Changed(m.st.mbfan_duty, new_duty, MbFans)
    IN  [m EXCEPT !.st.mbfan_duty = Store(@, new_duty, MbFans),
                  !.t_set_outputs = IF hit # {} THEN 0 ELSE @,
                  !.accepted = IF hit # {} THEN @ \cup {"duty"} ELSE @,
                  !.sampled.duty = new_duty]

\* body of the duty sampling task for the raw duty cycles get_pwm_duty_cycles()
\* left in mbfan_pwm_duty: per channel, an accepted change is stored,
\* t_set_outputs is set to 0 and change is incremented
PollPwmBody(m, raw) ==
    LET new_duty == [i \in MbFans |-> roundf(raw[i])]
        hit == Changed(m.st.mbfan_duty, new_duty, MbFans)
    IN  [m EXCEPT !.st.mbfan_duty = Store(@, new_duty, MbFans),
                  !.t_set_outputs = IF hit # {} THEN 0 ELSE @,
                  !.change = @ + Cardinality(hit),
                  !.accepted = IF hit # {} THEN @ \cup {"duty"} ELSE @,
                  !.sampled.duty = new_duty]

\* Read PWM input signals (duty cycle) periodically
PollPwm(m, raw) ==
    IF Due(m, "t_poll_pwm") THEN PollPwmBody(TimerFired(m, "t_poll_pwm"), raw) ELSE m

\* a variant body that sets t_set_outputs to 0 as the duty task does
PollTempBodyResetsTimer(m, temp) ==
    LET hit == Changed(m.st.temp, temp, Sensors)
    IN  [m EXCEPT !.st.temp = Store(@, temp, Sensors),
                  !.t_set_outputs = IF hit # {} THEN 0 ELSE @,
                  !.change = @ + Cardinality(hit),
                  !.accepted = IF hit # {} THEN @ \cup {"temp"} ELSE @,
                  !.sampled.temp = temp]

\* a variant body whose gate compares with the reading before, not with the
\* stored temperature
PollTempBodyGatesOnPrevious(m, temp) ==
    LET hit == Changed(m.sampled.temp, temp, Sensors)
    IN  [m EXCEPT !.st.temp = [i \in Sensors |-> IF i \in hit THEN temp[i] ELSE @[i]],
                  !.change = @ + Cardinality(hit),
                  !.accepted = IF hit # {} THEN @ \cup {"temp"} ELSE @,
                  !.sampled.temp = temp]

\* body of the temperature task for the readings get_temperature(i) returns
PollTempBody(m, temp) ==
    LET hit == Changed(m.st.temp, temp, Sensors)
    IN  [m EXCEPT !.st.temp = Store(@, temp, Sensors),
                  !.change = @ + Cardinality(hit),
                  !.accepted = IF hit # {} THEN @ \cup {"temp"} ELSE @,
                  !.sampled.temp = temp]

\* Read temperature sensors periodically
PollTemp(m, temp) ==
    IF Due(m, "t_temp") THEN PollTempBody(TimerFired(m, "t_temp"), temp) ELSE m

\* update_tacho_input_freq(st) for the frequencies core 1 measured: it is
\* handed st only, so it cannot touch the local change of main()
update_tacho_input_freq(m, freq) ==
    LET hit == Changed(m.st.fan_freq, freq, Fans)
    IN  [m EXCEPT !.st.fan_freq = Store(@, freq, Fans),
                  !.accepted = IF hit # {} THEN @ \cup {"freq"} ELSE @]

\* Calculate frequencies from input tachometer signals periodically
PollTacho(m, freq) ==
    IF Due(m, "t_poll_tacho")
      THEN update_tacho_input_freq(TimerFired(m, "t_poll_tacho"), freq)
      ELSE m

----------------------------------------------------------------------------
(* update_outputs *)

\* the gate of update_outputs on one channel
FanGate(s, c, i) ==
    check_for_change(s.fan_duty[i], calculate_pwm_duty(s, c, i), OutputThreshold)
TachoGate(s, c, i) ==
    check_for_change(s.mbfan_freq[i], calculate_tacho_freq(s, c, i), OutputThreshold)

\* the driver call update_outputs makes on a channel that passes its gate
FanCall(s, c, i) ==
    [drv |-> "pwm", ch |-> i, v |-> calculate_pwm_duty(s, c, i),
     prev |-> s.fan_duty[i], by |-> "update_outputs"]
TachoCall(s, c, i) ==
    [drv |-> "tacho", ch |-> i, v |-> calculate_tacho_freq(s, c, i),
     prev |-> s.mbfan_freq[i], by |-> "update_outputs"]

\* a variant without the gate: every channel is stored and programmed
update_outputs_always(s, c) ==
    [st |-> [s EXCEPT
               !.fan_duty = [i \in Fans |-> calculate_pwm_duty(s, c, i)],
               !.mbfan_freq = [i \in MbFans |-> calculate_tacho_freq(s, c, i)]],
     calls |-> [i \in Fans |-> FanCall(s, c, i)]
               \o [i \in MbFans |-> TachoCall(s, c, i)]]

\* a variant that stores the new value of every channel and gates the
\* driver calls only
update_outputs_stores_ungated(s, c) ==
    [st |-> [s EXCEPT
               !.fan_duty = [i \in Fans |-> calculate_pwm_duty(s, c, i)],
               !.mbfan_freq = [i \in MbFans |-> calculate_tacho_freq(s, c, i)]],
     calls |-> SelectSeq([i \in Fans |-> FanCall(s, c, i)],
                         LAMBDA r : FanGate(s, c, r.ch))
               \o SelectSeq([i \in MbFans |-> TachoCall(s, c, i)],
                            LAMBDA r : TachoGate(s, c, r.ch))]

\* update_outputs(state, config): the state it leaves and the driver calls
\* it makes, fans first, then motherboard fans.  (The calculate_ functions
\* read no field that update_outputs writes, so each channel sees the state
\* the call started with.)
update_outputs(s, c) ==
    [st |-> [s EXCEPT
               !.fan_duty = [i \in Fans |->
                   IF FanGate(s, c, i) THEN calculate_pwm_duty(s, c, i) ELSE @[i]],
               !.mbfan_freq = [i \in MbFans |->
                   IF TachoGate(s, c, i) THEN calculate_tacho_freq(s, c, i) ELSE @[i]]],
     calls |-> SelectSeq([i \in Fans |-> FanCall(s, c, i)],
                         LAMBDA r : FanGate(s, c, r.ch))
               \o SelectSeq([i \in MbFans |-> TachoCall(s, c, i)],
                            LAMBDA r : TachoGate(s, c, r.ch))]

\* the hardware after a sequence of driver calls
Programmed(hw, calls, drv) ==
    [i \in DOMAIN hw |->
        LET mine == {k \in DOMAIN calls : calls[k].drv = drv /\ calls[k].ch = i}
        IN  IF mine = {} THEN hw[i]
            ELSE calls[CHOOSE k \in mine : \A j \in mine : j <= k].v]

\* main() invokes update_outputs(st, cfg)
CallUpdateOutputs(m, c) ==
    LET r == update_outputs(m.st, c)
    IN  [m EXCEPT !.st = r.st,
                  !.pwm_hw = Programmed(@, r.calls, "pwm"),
                  !.tacho_hw = Programmed(@, r.calls, "tacho"),
                  !.drv_calls = @ \o r.calls,
                  !.upd_calls = @ + 1,
                  !.fired = Append(@, "update_outputs")]

\* a variant that invokes update_outputs once for every change it counted
OutputsPerChange(m, c) ==
    IF m.change >= 2 THEN CallUpdateOutputs(CallUpdateOutputs(m, c), c)
    ELSE IF m.change = 1 THEN CallUpdateOutputs(m, c)
    ELSE IF Due(m, "t_set_outputs")
      THEN CallUpdateOutputs(TimerFired(m, "t_set_outputs"), c)
      ELSE m

\* a variant in which update_outputs works on the inputs as they were stored
\* before the sampling tasks of this pass
OutputsBeforeSampling(m, c) ==
    LET before == [m.st EXCEPT !.mbfan_duty = st.mbfan_duty, !.temp = st.temp,
                               !.fan_freq = st.fan_freq]
        r == update_outputs(before, c)
        ran == [m EXCEPT !.st.fan_duty = r.st.fan_duty,
                         !.st.mbfan_freq = r.st.mbfan_freq,
                         !.pwm_hw = Programmed(@, r.calls, "pwm"),
                         !.tacho_hw = Programmed(@, r.calls, "tacho"),
                         !.drv_calls = @ \o r.calls,
                         !.upd_calls = @ + 1,
                         !.fired = Append(@, "update_outputs")]
    IN  IF m.change # 0 THEN ran
        ELSE IF Due(m, "t_set_outputs")
          THEN [ran EXCEPT !.t_set_outputs = m.now,
                           !.fired = Append(Append(m.fired, "t_set_outputs"), "update_outputs"),
                           !.last_fire.t_set_outputs = m.now]
          ELSE m

\* if (change || time_passed(&t_set_outputs, 3000)) update_outputs(st, cfg);
\* time_passed is not evaluated when change is set
Outputs(m, c) ==
    IF m.change # 0 THEN CallUpdateOutputs(m, c)
    ELSE IF Due(m, "t_set_outputs")
      THEN CallUpdateOutputs(
             [TimerFired(m, "t_set_outputs") EXCEPT
                 !.gap = IF m.last_fire.t_set_outputs = -1 THEN -1
                         ELSE m.now - m.last_fire.t_set_outputs], c)
      ELSE m

\* one pass of the loop from its top to the console pump: the steps in the
\* order of the source, each on the locals the step before it left
Iterate ==
    /\ pc = "loop"
    /\ \E d \in Deltas :
        /\ now + d <= MaxTime
        /\ \E m1 \in {LoopTop(Main, d)} :
           \E m2 \in {NetworkPoll(m1)} :
           \E m3 \in {LedToggle(m2, cfg)} :
           \E m4 \in {DisplayRefresh(m3)} :
           \E m5 \in {PollPwm(m4, raw) : raw \in [MbFans -> DutySamples]} :
           \E m6 \in {PollTemp(m5, temp) : temp \in [Sensors -> TempSamples]} :
           \E m7 \in {PollTacho(m6, freq) : freq \in [Fans -> FreqSamples]} :
           \E m \in {Outputs(m7, cfg)} :
                 /\ now' = m.now
                 /\ st' = m.st
                 /\ pwm_hw' = m.pwm_hw
                 /\ tacho_hw' = m.tacho_hw
                 /\ t_network' = m.t_network
                 /\ t_led' = m.t_led
                 /\ t_display' = m.t_display
                 /\ t_poll_pwm' = m.t_poll_pwm
                 /\ t_temp' = m.t_temp
                 /\ t_poll_tacho' = m.t_poll_tacho
                 /\ t_set_outputs' = m.t_set_outputs
                 /\ t_last' = m.t_last
                 /\ led_state' = m.led_state
                 /\ change' = m.change
                 /\ drv_calls' = m.drv_calls
                 /\ fired' = m.fired
                 /\ last_fire' = m.last_fire
                 /\ gap' = m.gap
                 /\ accepted' = m.accepted
                 /\ sampled' = m.sampled
                 /\ upd_calls' = m.upd_calls
                 /\ wd_updates' = m.wd_updates
    /\ pc' = "console"
    /\ UNCHANGED <<cfg, consoleVars, wd_enabled, hwVars>>

----------------------------------------------------------------------------
(* The command console *)

\* cell i (counted from 0) of input_buf is written
WriteCell(buf, i, v) ==
    IF i < Len(buf) THEN [buf EXCEPT ![i + 1] = v] ELSE Append(buf, v)

\* the C string that starts at mem[1]: the bytes before the first NUL
CStr(mem) ==
    LET z == {k \in 1..Len(mem) : mem[k] = NUL}
    IN  IF z = {} THEN mem
        ELSE SubSeq(mem, 1, (CHOOSE k \in z : \A j \in z : k <= j) - 1)

\* the scalars of main() the compiler may place behind input_buf
Neighbours == {"padding", "led_state", "change"}

\* input_buf[sizeof(input_buf)] = 0: the store lands on whatever lies behind
\* the array, and zeroes it (both scalars are below 256)
Clobber(victim) ==
    /\ led_state' = IF victim = "led_state" THEN 0 ELSE led_state
    /\ change' = IF victim = "change" THEN 0 ELSE change

Echo(text) == IF cfg.local_echo THEN text ELSE ""

\* a variant in which the test for a full buffer comes first: a control byte
\* that meets a full buffer forces the dispatch
ConsoleControlUnlessFull(c) ==
    /\ IsControl(c)
    /\ IF i_ptr >= BufSize
         THEN /\ last_echo' = Echo("\\r\\n")
              /\ dispatched' = Append(dispatched, SubSeq(input_buf, 1, BufSize))
              /\ i_ptr' = 0
         ELSE /\ last_echo' = ""
              /\ UNCHANGED <<dispatched, i_ptr>>
    /\ UNCHANGED <<input_buf, oob, led_state, change, timerVars>>

\* if (c == 0xff || c == 0x00) continue;
ConsoleControl(c) ==
    /\ IsControl(c)
    /\ last_echo' = ""
    /\ UNCHANGED <<input_buf, i_ptr, dispatched, oob, led_state, change, timerVars>>

\* a variant editor in which a backspace erases the whole buffered line
ConsoleBackspaceKillsLine(c) ==
    /\ ~IsControl(c) /\ IsBackspace(c)
    /\ i_ptr' = 0
    /\ last_echo' = Echo("\\b \\b")
    /\ UNCHANGED <<input_buf, dispatched, oob, led_state, change, timerVars>>

\* if (c == 0x7f || c == 0x08) { if (i_ptr > 0) i_ptr--; echo; continue; }
ConsoleBackspace(c) ==
    /\ ~IsControl(c) /\ IsBackspace(c)
    /\ i_ptr' = IF i_ptr > 0 THEN i_ptr - 1 ELSE i_ptr
    /\ last_echo' = Echo("\\b \\b")
    /\ UNCHANGED <<input_buf, dispatched, oob, led_state, change, timerVars>>

\* a variant editor that hands over the buffer at every terminator, empty or not
ConsoleDispatchAlways(c) ==
    /\ ~IsControl(c) /\ ~IsBackspace(c)
    /\ IsTerminator(c) \/ i_ptr >= BufSize
    /\ last_echo' = Echo("\\r\\n")
    /\ input_buf' = WriteCell(input_buf, i_ptr, NUL)
    /\ dispatched' = Append(dispatched, CStr(input_buf'))
    /\ i_ptr' = 0
    /\ UNCHANGED <<oob, led_state, change, timerVars>>

\* if (c == 10 || c == 13 || i_ptr >= sizeof(input_buf)) {
\*     echo; input_buf[i_ptr] = 0;
\*     if (i_ptr > 0) { process_command(st, cfg, input_buf); i_ptr = 0; }
\*     continue; }
ConsoleDispatch(c) ==
    /\ ~IsControl(c) /\ ~IsBackspace(c)
    /\ IsTerminator(c) \/ i_ptr >= BufSize
    /\ last_echo' = Echo("\\r\\n")
    /\ IF i_ptr < BufSize
         THEN /\ input_buf' = WriteCell(input_buf, i_ptr, NUL)
              /\ UNCHANGED <<oob, led_state, change>>
         ELSE /\ UNCHANGED input_buf
              /\ oob' = oob + 1
              /\ \E victim \in Neighbours : Clobber(victim)
    /\ UNCHANGED timerVars
    /\ IF i_ptr > 0
         THEN /\ dispatched' =
                    Append(dispatched,
                           CStr(IF i_ptr < BufSize THEN input_buf'
                                ELSE Append(input_buf, NUL)))
              /\ i_ptr' = 0
         ELSE UNCHANGED <<dispatched, i_ptr>>

\* input_buf[i_ptr++] = c; echo
ConsoleStore(c) ==
    /\ ~IsControl(c) /\ ~IsBackspace(c)
    /\ ~(IsTerminator(c) \/ i_ptr >= BufSize)
    /\ input_buf' = WriteCell(input_buf, i_ptr, c)
    /\ i_ptr' = i_ptr + 1
    /\ last_echo' = Echo("c")
    /\ UNCHANGED <<dispatched, oob, led_state, change, timerVars>>

\* what main() does with a byte c it has read
ConsoleByte(c) ==
    \/ ConsoleControl(c)
    \/ ConsoleBackspace(c)
    \/ ConsoleDispatch(c)
    \/ ConsoleStore(c)

\* the line editor as the specification describes it: control bytes are
\* ignored, a backspace removes the last buffered byte, a terminator hands a
\* non-empty buffer over and clears it, any other byte is appended.  covered
\* says that the buffer has held fewer than sizeof(input_buf) bytes so far.
RefStep(r, c) ==
    IF IsControl(c) THEN r
    ELSE IF IsBackspace(c)
      THEN [r EXCEPT !.buf = IF @ = <<>> THEN @ ELSE SubSeq(@, 1, Len(@) - 1)]
    ELSE IF IsTerminator(c)
      THEN [r EXCEPT !.buf = <<>>,
                     !.lines = IF r.buf = <<>> THEN @ ELSE Append(@, r.buf)]
    ELSE [r EXCEPT !.buf = Append(@, c),
                   !.covered = @ /\ Len(r.buf) + 1 < BufSize]

\* one turn of while ((c = getchar_timeout_us(0)) != PICO_ERROR_TIMEOUT)
ConsoleRead ==
    /\ pc = "console"
    /\ rx # <<>>
    /\ rx' = Tail(rx)
    /\ ref' = RefStep(ref, Head(rx))
    /\ ConsoleByte(Head(rx))
    /\ UNCHANGED <<pc, now, cfg, st, script, arrivals, outVars, ghostVars, wdVars,
                   hwVars>>

\* getchar_timeout_us(0) returns PICO_ERROR_TIMEOUT: the pump yields
ConsoleTimeout ==
    /\ pc = "console"
    /\ rx = <<>>
    /\ pc' = "watchdog"
    /\ last_echo' = ""
    /\ UNCHANGED <<now, cfg, st, timerVars, led_state, change, input_buf, i_ptr,
                   rx, script, arrivals, dispatched, oob, ref, outVars,
                   ghostVars, wdVars, hwVars>>

\* a variant that refreshes the watchdog only after a pass without changes
WatchdogWhenIdle ==
    /\ pc = "watchdog"
    /\ wd_updates' = IF change = 0 THEN wd_updates + 1 ELSE wd_updates
    /\ wd_last' = IF change = 0 THEN now ELSE wd_last
    /\ pc' = "loop"
    /\ UNCHANGED <<now, cfg, st, timerVars, led_state, change, consoleVars,
                   outVars, ghostVars, wd_enabled, bootVars, usbVars, coreVars>>

\* watchdog_update(), then the next pass of while (1)
Watchdog ==
    /\ pc = "watchdog"
    /\ wd_updates' = wd_updates + 1
    /\ wd_last' = now
    /\ pc' = "loop"
    /\ UNCHANGED <<now, cfg, st, timerVars, led_state, change, consoleVars,
                   outVars, ghostVars, wd_enabled, bootVars, usbVars, coreVars>>

\* the bytes that arrive one by one
InputBytes == {97, BS1, CR, XFF}

\* a byte arrives on the console.  Only the pump reads the queue, so a byte
\* that arrives elsewhere in the loop is one that is queued when the pump
\* starts.
Arrive ==
    /\ pc = "console"
    /\ Len(rx) < MaxQueue
    /\ \E b \in InputBytes :
          /\ rx' = Append(rx, b)
          /\ IF IsControl(b) THEN UNCHANGED arrivals
             ELSE arrivals < MaxArrivals /\ arrivals' = arrivals + 1
    /\ UNCHANGED <<pc, now, cfg, st, timerVars, led_state, change, input_buf,
                   i_ptr, script, dispatched, last_echo, oob, ref, outVars,
                   ghostVars, wdVars, hwVars>>

----------------------------------------------------------------------------
(* Core 1: core1_main, and the multicore lockout *)

Min(a, b) == IF a < b THEN a ELSE b

\* a variant start of core 1 that does not register as lockout victim
Core1InitNoVictim ==
    /\ pc1 = "start"
    /\ t_tick' = now
    /\ pc1' = "loop"
    /\ UNCHANGED <<core0Vars, lockout_victim, lockout, tacho_sig, tacho_in, cap>>

\* core1_main() up to its loop: the core registers as lockout victim and
\* sets t_tick (and its own t_last) to the current time
Core1Init ==
    /\ pc1 = "start"
    /\ lockout_victim' = TRUE
    /\ t_tick' = now
    /\ pc1' = "loop"
    /\ UNCHANGED <<core0Vars, lockout, tacho_sig, tacho_in, cap>>

\* core 1 is held by a lockout: it is a registered victim and core 0 holds
\* the lockout
Paused == lockout /\ lockout_victim

\* read_tacho_inputs(): the capture measures the signal as it is now
read_tacho_inputs == tacho_sig

\* a variant pass of core 1 that stores its measurement in system_state
Core1LoopStoresState ==
    /\ pc1 = "loop"
    /\ ~Paused
    /\ tacho_in' = read_tacho_inputs
    /\ st' = [st EXCEPT !.fan_freq = [i \in Fans |-> read_tacho_inputs]]
    /\ t_tick' = IF time_passed(t_tick, TickInterval, now) THEN now ELSE t_tick
    /\ cap' = [cap EXCEPT !.n = 1 - @, !.since = Min(@ + 1, MaxSamples)]
    /\ UNCHANGED <<pc, now, cfg, timerVars, led_state, change, consoleVars,
                   outVars, ghostVars, wdVars, wd_last, bootVars, usbVars,
                   pc1, lockout_victim, lockout, tacho_sig>>

\* one pass of while (1) of core1_main(): the loop time is measured (for
\* the log only), the tacho inputs are read, the tick is logged every 60 s.
\* cap.n alternates with every pass.
Core1Loop ==
    /\ pc1 = "loop"
    /\ ~Paused
    /\ tacho_in' = read_tacho_inputs
    /\ t_tick' = IF time_passed(t_tick, TickInterval, now) THEN now ELSE t_tick
    /\ cap' = [cap EXCEPT !.n = 1 - @, !.since = Min(@ + 1, MaxSamples)]
    /\ UNCHANGED <<core0Vars, pc1, lockout_victim, lockout, tacho_sig>>

\* the tacho signal of the fan changes
SignalChange ==
    /\ \E f \in FreqSamples \ {tacho_sig} : tacho_sig' = f
    /\ UNCHANGED <<core0Vars, pc1, lockout_victim, lockout, tacho_in, t_tick, cap>>

\* core 0, in a command, takes the lockout: multicore_lockout_start_blocking()
\* returns once the registered victim is held
LockoutStart ==
    /\ pc = "console"
    /\ lockout_victim
    /\ ~lockout
    /\ lockout' = TRUE
    /\ UNCHANGED <<core0Vars, pc1, lockout_victim, tacho_sig, tacho_in, t_tick, cap>>

\* core 0 releases the lockout: multicore_lockout_end_blocking()
LockoutEnd ==
    /\ lockout
    /\ lockout' = FALSE
    /\ cap' = [cap EXCEPT !.since = 0, !.cycles = Min(@ + 1, MaxLockouts)]
    /\ UNCHANGED <<core0Vars, pc1, lockout_victim, tacho_sig, tacho_in, t_tick>>

----------------------------------------------------------------------------
(* Specifications *)

Next ==
    \/ UsbPoll
    \/ Setup
    \/ Launch
    \/ Iterate
    \/ Arrive
    \/ ConsoleRead
    \/ ConsoleTimeout
    \/ Watchdog

Spec == Init /\ [][Next]_vars

\* core 0 runs main() and nothing else: whenever it can take a step it does.
\* Nothing is assumed of the byte source.
Core0 == UsbPoll \/ Setup \/ Launch \/ Iterate \/ ConsoleRead \/ ConsoleTimeout \/ Watchdog
SpecLive == Init /\ [][Next]_vars /\ WF_vars(Core0)

(* Boot runs: the board with its hardware watchdog and its power supply, the
   USB console connecting at any poll of the wait or not at all, and a pump
   that is kept busy. *)

\* the hardware watchdog has not been refreshed for longer than its timeout
Expired == wd_last # -1 /\ now - wd_last > WATCHDOG_REBOOT_DELAY

\* the board is reset: main() is entered again; the configuration in flash
\* and the world around the board stay as they are
Reboot(by_watchdog) ==
    /\ pc' = "usb_wait"
    /\ now' = 0
    /\ st' = clear_state
    /\ pwm_hw' = [i \in Fans |-> 0]
    /\ tacho_hw' = [i \in MbFans |-> -1]
    /\ t_network' = 0 /\ t_led' = 0 /\ t_display' = 0 /\ t_poll_pwm' = 0
    /\ t_temp' = 0 /\ t_poll_tacho' = 0 /\ t_set_outputs' = 0 /\ t_last' = 0
    /\ led_state' = 0
    /\ change' = 0
    /\ input_buf' = <<>>
    /\ i_ptr' = 0
    /\ rx' = <<>>
    /\ arrivals' = 0
    /\ dispatched' = <<>>
    /\ last_echo' = ""
    /\ oob' = 0
    /\ ref' = [buf |-> <<>>, lines |-> <<>>, covered |-> TRUE]
    /\ drv_calls' = <<>>
    /\ fired' = <<>>
    /\ last_fire' = NoFire
    /\ gap' = -1
    /\ accepted' = {}
    /\ sampled' = NoSample
    /\ upd_calls' = 0
    /\ wd_enabled' = 0
    /\ wd_updates' = 0
    /\ wd_last' = -1
    /\ rebooted_by_watchdog' = FALSE
    /\ usb_i' = 0
    /\ usb_polls' = 0
    /\ usb_sleeps' = 0
    /\ pc1' = "off"
    /\ lockout_victim' = FALSE
    /\ lockout' = FALSE
    /\ tacho_in' = 0
    /\ t_tick' = 0
    /\ cap' = NoSamples
    /\ caused_reboot' = by_watchdog
    /\ boots' = boots + 1
    /\ UNCHANGED <<cfg, script, usb_at, tacho_sig>>

\* the hardware watchdog forces a reset
WatchdogReset ==
    /\ Expired
    /\ boots < MaxBoots
    /\ Reboot(TRUE)

\* the power is taken away and applied again
PowerCycle ==
    /\ ~Expired
    /\ boots < MaxBoots
    /\ Reboot(FALSE)

\* how long after the last refresh a busy pump may still be running
StallTimes == {WATCHDOG_REBOOT_DELAY, WATCHDOG_REBOOT_DELAY + 1}

\* the pump has a byte to work on and time passes
Stall ==
    /\ pc = "console"
    /\ rx # <<>>
    /\ boots < MaxBoots
    /\ \E e \in StallTimes :
          /\ now < wd_last + e
          /\ now' = wd_last + e
    /\ UNCHANGED <<pc, cfg, st, timerVars, led_state, change, consoleVars,
                   outVars, ghostVars, wdVars, hwVars>>

InitBoot ==
    /\ Entry
    /\ cfg \in Configs
    /\ script = <<>>
    /\ usb_at \in 1..(UsbPolls + 1)
    /\ tacho_sig = 0
    /\ caused_reboot = FALSE
    /\ boots = 0

\* core 0 runs for as long as the watchdog has not expired
NextBoot ==
    \/ ~Expired /\ UsbPoll
    \/ ~Expired /\ Setup
    \/ ~Expired /\ Launch
    \/ ~Expired /\ Iterate /\ now' <= BootHorizon
    \/ ~Expired /\ ConsoleRead
    \/ ~Expired /\ ConsoleTimeout
    \/ ~Expired /\ Watchdog
    \/ ~Expired /\ Arrive
    \/ Stall
    \/ WatchdogReset
    \/ PowerCycle

\* core 0 and the hardware watchdog keep running
BootProgress ==
    \/ ~Expired /\ (UsbPoll \/ Setup \/ Launch \/ ConsoleRead \/ ConsoleTimeout \/ Watchdog)
    \/ WatchdogReset

SpecBoot == InitBoot /\ [][NextBoot]_vars /\ WF_vars(BootProgress)

(* Two-core runs: core 1 runs beside core 0, the tacho signal changes, core 0
   takes and releases the lockout while it is in a command, and the
   frequency task of the loop is handed what core 1 measured last. *)

\* update_tacho_input_freq(st) has worked on the measurement of core 1
FedByCapture ==
    (\E k \in DOMAIN fired' : fired'[k] = "t_poll_tacho") =>
        st'.fan_freq = [i \in Fans |->
            IF check_for_change(st.fan_freq[i], tacho_in, SampleThreshold)
              THEN tacho_in ELSE st.fan_freq[i]]

NextCores ==
    \/ ~lockout /\ UsbPoll
    \/ ~lockout /\ Setup
    \/ ~lockout /\ Launch
    \/ ~lockout /\ Iterate /\ now' <= CoresHorizon /\ FedByCapture
    \/ ~lockout /\ ConsoleTimeout
    \/ ~lockout /\ Watchdog
    \/ Core1Init
    \/ Core1Loop
    \/ SignalChange
    \/ LockoutStart
    \/ LockoutEnd

SpecCores == Init /\ [][NextCores]_vars

(* Runs with a command: as Spec, but the bytes that arrive are one command
   line, queued as a whole while the pump runs. *)

CommandLine == <<97, CR>>

ArriveLine ==
    /\ pc = "console"
    /\ rx = <<>> /\ i_ptr = 0 /\ dispatched = <<>>
    /\ rx' = CommandLine
    /\ UNCHANGED <<pc, now, cfg, st, timerVars, led_state, change, input_buf,
                   i_ptr, script, arrivals, dispatched, last_echo, oob, ref,
                   outVars, ghostVars, wdVars, hwVars>>

NextOrder ==
    \/ UsbPoll
    \/ Setup
    \/ Launch
    \/ Iterate
    \/ ArriveLine
    \/ ConsoleRead
    \/ ConsoleTimeout
    \/ Watchdog

SpecOrder == Init /\ [][NextOrder]_vars

(* Sampling runs: the bodies of the duty task and of the temperature task,
   applied again and again to readings that move in steps below the
   threshold.  Each application is the task in a pass in which its timer has
   fired; change is the counter the top of that pass has cleared. *)

\* raw duty cycles in hundredths of a percent, in steps of 0.4
DriftDuties == {0, 40, 80, 120}
\* temperatures in hundredths of a degree, in steps of 0.4
DriftTemps == {2000, 2040, 2080, 2120}

SampleDuty ==
    /\ pc = "loop"
    /\ \E raw \in [MbFans -> DriftDuties] :
       \E m \in {PollPwmBody(LoopTop(Main, 0), raw)} :
          /\ st' = m.st
          /\ change' = m.change
          /\ t_set_outputs' = m.t_set_outputs
          /\ accepted' = m.accepted
          /\ sampled' = m.sampled
    /\ UNCHANGED <<pc, now, cfg, t_network, t_led, t_display, t_poll_pwm, t_temp,
                   t_poll_tacho, t_last, led_state, consoleVars, outVars,
                   fired, last_fire, gap, wdVars, hwVars>>

SampleTemp ==
    /\ pc = "loop"
    /\ \E temp \in [Sensors -> DriftTemps] :
       \E m \in {PollTempBody(LoopTop(Main, 0), temp)} :
          /\ st' = m.st
          /\ change' = m.change
          /\ t_set_outputs' = m.t_set_outputs
          /\ accepted' = m.accepted
          /\ sampled' = m.sampled
    /\ UNCHANGED <<pc, now, cfg, t_network, t_led, t_display, t_poll_pwm, t_temp,
                   t_poll_tacho, t_last, led_state, consoleVars, outVars,
                   fired, last_fire, gap, wdVars, hwVars>>

NextSampling ==
    \/ UsbPoll
    \/ Setup
    \/ Launch
    \/ SampleDuty
    \/ SampleTemp

SpecSampling == Init /\ [][NextSampling]_vars

(* Console runs: the pump of the first pass of the loop, 1000 ms after boot,
   with a whole byte stream queued. *)

Alphabet == {97, 120, BS1, BS2, LF, CR, NUL, XFF}
ShortScripts == UNION {[1..n -> Alphabet] : n \in 0..MaxScriptLen}

\* n data bytes
Run(n) == [k \in 1..n |-> 97]
\* f a n <backspace> x <CR>
FanScripts == {<<102, 97, 110, b, 120, CR>> : b \in {BS1, BS2}}
LongTails == {<<>>, <<CR>>, <<BS1, CR>>, <<97, CR>>, <<97, 97, LF>>}
LongScripts == {Run(n) \o t : n \in (BufSize - 1)..(BufSize + 1), t \in LongTails}
\* a control byte that meets a buffer with one free cell, or a full one
ControlScripts == {Run(n) \o <<b, 97>> : n \in {BufSize - 1, BufSize}, b \in {NUL, XFF}}

\* the state at the first pump when setup() took 1000 ms and the pass none
FirstPump ==
    /\ pc = "console"
    /\ now = 1000
    /\ st = clear_state
    /\ pwm_hw = [i \in Fans |-> 0]
    /\ tacho_hw = [i \in MbFans |-> -1]
    /\ t_network = 1000 /\ t_led = 1000 /\ t_display = 1000 /\ t_poll_pwm = 0
    /\ t_temp = 0 /\ t_poll_tacho = 0 /\ t_set_outputs = 0 /\ t_last = 1000
    /\ led_state = NextLed(cfg, 0)
    /\ change = 0
    /\ input_buf = <<>>
    /\ i_ptr = 0
    /\ arrivals = 0
    /\ dispatched = <<>>
    /\ last_echo = ""
    /\ oob = 0
    /\ ref = [buf |-> <<>>, lines |-> <<>>, covered |-> TRUE]
    /\ drv_calls = <<>>
    /\ fired = <<"t_network", "t_led">>
    /\ last_fire = [NoFire EXCEPT !.t_network = 1000, !.t_led = 1000]
    /\ gap = -1
    /\ accepted = {}
    /\ sampled = NoSample
    /\ upd_calls = 0
    /\ wd_enabled = 1
    /\ wd_updates = 0
    /\ wd_last = 1000
    /\ caused_reboot = FALSE
    /\ rebooted_by_watchdog = FALSE
    /\ boots = 0
    /\ usb_at = 5
    /\ usb_i = 5
    /\ usb_polls = 5
    /\ usb_sleeps = 4
    /\ pc1 = "start"
    /\ lockout_victim = FALSE
    /\ lockout = FALSE
    /\ tacho_sig = 0
    /\ tacho_in = 0
    /\ t_tick = 0
    /\ cap = NoSamples

InitConsole ==
    /\ \/ script \in ShortScripts \cup FanScripts /\ cfg \in Configs
       \/ script \in LongScripts \cup ControlScripts
          /\ cfg \in {c \in Configs : c.led_mode = 0}
    /\ FirstPump
    /\ rx = script

NextConsole ==
    \/ ConsoleRead
    \/ ConsoleTimeout
    \/ Watchdog

SpecConsole == InitConsole /\ [][NextConsole]_vars

----------------------------------------------------------------------------
(* Properties of the command console, checked under SpecConsole *)

\* the bytes of script the pump has read so far
Consumed == Len(script) - Len(rx)

\* C1 (as the specification states it): after the bytes f a n <backspace> x
\* <CR> are fed to an empty buffer, exactly one line has been dispatched, it
\* is "x", and the buffer is empty.
C1_LineIsX ==
    (script \in FanScripts /\ rx = <<>>) =>
        (dispatched = << <<120>> >> /\ i_ptr = 0)

\* C1 (amended): the backspace removes only the last buffered byte, so after
\* f a n <backspace> x <CR> exactly one line has been dispatched, it is
\* "fax", the buffer is empty, and nothing is dispatched before the <CR>.
C1_LineIsFax ==
    script \in FanScripts =>
        /\ rx # <<>> => dispatched = <<>>
        /\ rx = <<>> => (dispatched = << <<102, 97, 120>> >> /\ i_ptr = 0)

C1_FanLineDispatched ==
    /\ script \in FanScripts
    /\ rx = <<>>
    /\ Len(dispatched) = 1
    /\ i_ptr = 0

\* C2: while the buffer has held fewer than sizeof(input_buf) bytes, the
\* editor follows the described rules: 0x00/0xFF are ignored, a backspace
\* removes the last buffered byte (none from an empty buffer), a terminator
\* dispatches a non-empty buffer as one line and empties it (an empty buffer
\* dispatches nothing), any other byte is appended; no store leaves the array.
C2_EditorFollowsRules ==
    ref.covered =>
        /\ dispatched = ref.lines
        /\ i_ptr = Len(ref.buf)
        /\ SubSeq(input_buf, 1, i_ptr) = ref.buf
        /\ oob = 0

C2_LongLineEdited ==
    /\ script = Run(BufSize - 1) \o <<BS1, CR>>
    /\ rx = <<>>
    /\ ref.covered
    /\ dispatched = <<Run(BufSize - 2)>>
    /\ i_ptr = 0

\* C3 (as the specification states it): when sizeof(input_buf) + 1 bytes
\* without terminator are fed, the dispatch is forced at byte
\* sizeof(input_buf): from then on exactly one line, the first
\* sizeof(input_buf) bytes, has been dispatched, the buffer was reset by it,
\* and no store has left the array.
C3_ForcedAtBufSize ==
    script = Run(BufSize + 1) =>
        /\ Consumed < BufSize => dispatched = <<>>
        /\ Consumed >= BufSize => dispatched = <<Run(BufSize)>>
        /\ Consumed = BufSize => i_ptr = 0
        /\ oob = 0

\* what the program does with the same input: byte sizeof(input_buf) is only
\* stored, the dispatch comes with the next byte, which is dropped, and its
\* terminating NUL is stored behind the array
C3_ForcedOneByteLate ==
    script = Run(BufSize + 1) =>
        /\ Consumed <= BufSize => (dispatched = <<>> /\ i_ptr = Consumed /\ oob = 0)
        /\ Consumed = BufSize + 1 =>
              (dispatched = <<Run(BufSize)>> /\ i_ptr = 0 /\ oob = 1)

----------------------------------------------------------------------------
(* Properties of the main loop, checked under Spec *)

\* the step that runs one pass of the loop up to the console pump
IterateStep == pc = "loop" /\ pc' = "console"

\* the pass that ran last has reached or left the console pump
PassDone == pc \in {"console", "watchdog"}

\* step t ran in this pass
FiredIn(t) == \E k \in DOMAIN fired : fired[k] = t

\* the last-fire timestamps of main(), by name
TimerValue ==
    [t_network |-> t_network, t_led |-> t_led, t_display |-> t_display,
     t_poll_pwm |-> t_poll_pwm, t_temp |-> t_temp,
     t_poll_tacho |-> t_poll_tacho, t_set_outputs |-> t_set_outputs]

PeriodicTimers == Timers \ {"t_set_outputs"}

\* a driver call was made in this pass on channel i of driver drv
Called(drv, i) ==
    \E k \in DOMAIN drv_calls : drv_calls[k].drv = drv /\ drv_calls[k].ch = i

\* C4: update_outputs is invoked at most once in a pass of the loop, and
\* exactly once in a pass in which one or more channels or sensors changed.
C4_OneUpdatePerPass ==
    /\ upd_calls \in {0, 1}
    /\ Cardinality({k \in DOMAIN fired : fired[k] = "update_outputs"}) = upd_calls
    /\ (PassDone /\ change >= 1) => upd_calls = 1

C4_ThreeChangesOneUpdate ==
    /\ pc = "console"
    /\ change = 3
    /\ accepted = {"duty", "temp"}
    /\ upd_calls = 1

\* C5 (as the specification states it): every call of set_pwm_duty_cycle or
\* set_tacho_output_freq carries a value that differs from the stored value
\* of its channel by the threshold or more.
C5_EveryCallGated ==
    \A k \in DOMAIN drv_calls :
        Abs(drv_calls[k].v - drv_calls[k].prev) >= OutputThreshold

\* C5 (amended): setup() programs every fan output to 0 whatever is stored;
\* after that a driver is called in a pass only on a channel whose freshly
\* calculated value differs from the stored one by the threshold or more
\* (a difference equal to the threshold counts), the value is then stored
\* and programmed, and a channel that is not called keeps its stored value
\* and its output.
C5_GatedAfterSetup ==
    [][ /\ pc = "setup" =>
            \A i \in Fans :
                \E k \in DOMAIN drv_calls' :
                    /\ drv_calls'[k] = [drv |-> "pwm", ch |-> i, v |-> 0,
                                        prev |-> st'.fan_duty[i], by |-> "setup"]
                    /\ pwm_hw'[i] = 0
        /\ IterateStep =>
            /\ \A i \in Fans :
                 LET new == calculate_pwm_duty(st', cfg, i)
                 IN  IF Abs(new - st.fan_duty[i]) >= OutputThreshold /\ upd_calls' = 1
                       THEN Called("pwm", i)' /\ st'.fan_duty[i] = new
                            /\ pwm_hw'[i] = new
                       ELSE ~Called("pwm", i)' /\ st'.fan_duty[i] = st.fan_duty[i]
                            /\ pwm_hw'[i] = pwm_hw[i]
            /\ \A i \in MbFans :
                 LET new == calculate_tacho_freq(st', cfg, i)
                 IN  IF Abs(new - st.mbfan_freq[i]) >= OutputThreshold /\ upd_calls' = 1
                       THEN Called("tacho", i)' /\ st'.mbfan_freq[i] = new
                            /\ tacho_hw'[i] = new
                       ELSE ~Called("tacho", i)' /\ st'.mbfan_freq[i] = st.mbfan_freq[i]
                            /\ tacho_hw'[i] = tacho_hw[i]
      ]_vars

\* a fan was programmed on a difference of exactly the threshold, and a
\* tacho output was left alone by the same update
C5_CallAtThreshold ==
    /\ pc = "console"
    /\ upd_calls = 1
    /\ \E k \in DOMAIN drv_calls :
          /\ drv_calls[k].drv = "pwm"
          /\ Abs(drv_calls[k].v - drv_calls[k].prev) = OutputThreshold
    /\ \E i \in MbFans : ~Called("tacho", i)

\* C6 (as the specification states it): no timed task of the loop, the
\* timer path of the output update included, fires when less than its
\* interval has passed since it fired last.
C6_NeverEarly ==
    [][ IterateStep =>
          \A t \in Timers :
              FiredIn(t)' =>
                  (last_fire[t] = -1 \/ now' - last_fire[t] >= Interval[t])
      ]_vars

\* C6 (amended): a timed task fires only when its interval has passed since
\* its timestamp; the six periodic tasks therefore never fire less than an
\* interval after their last fire, and the timer path of the output update
\* does so only when an accepted duty change has set t_set_outputs to 0
\* since, in which case it fires in the first pass without a change once
\* 3000 ms have passed since boot.
C6_EarlyOnlyAfterReset ==
    [][ IterateStep =>
          /\ \A t \in PeriodicTimers :
                FiredIn(t)' =>
                    /\ now' - TimerValue[t] >= Interval[t]
                    /\ last_fire[t] = -1 \/ now' - last_fire[t] >= Interval[t]
          /\ FiredIn("t_set_outputs")' =>
                /\ change' = 0
                /\ now' - t_set_outputs >= Interval.t_set_outputs
                /\ \/ last_fire.t_set_outputs = -1
                   \/ now' - last_fire.t_set_outputs >= Interval.t_set_outputs
                   \/ t_set_outputs = 0
          /\ (t_set_outputs = 0 /\ change' = 0 /\ now' >= Interval.t_set_outputs)
                => FiredIn("t_set_outputs")'
      ]_vars

\* the timer path of the output update fired 1500 ms after its last fire
C6_OutputTimerEarly ==
    /\ pc = "console"
    /\ FiredIn("t_set_outputs")
    /\ gap = 1500
    /\ change = 0

\* main() is in while (1); the timestamps have their initial values
InLoop == pc \notin {"usb_wait", "setup", "launch"}

\* C7 (as the specification states it): once the loop runs, no last-fire
\* timestamp, that of the output update included, ever decreases; it changes
\* only when its task fires, and then to the current time.
C7_AllMonotonic ==
    [][ InLoop =>
          \A t \in Timers :
              /\ TimerValue'[t] >= TimerValue[t]
              /\ TimerValue'[t] # TimerValue[t] =>
                    (FiredIn(t)' /\ TimerValue'[t] = now')
      ]_vars

\* C7 (amended): once the loop runs, the timestamps of the six periodic tasks
\* never decrease and change only when the task fires, to the current time;
\* t_set_outputs changes to the current time when the timer path of the
\* output update fires, and to 0 when the duty task accepts a change, and
\* not otherwise.
C7_MonotonicButOutputTimer ==
    [][ InLoop =>
        /\ \A t \in PeriodicTimers :
              /\ TimerValue'[t] >= TimerValue[t]
              /\ TimerValue'[t] # TimerValue[t] =>
                    (FiredIn(t)' /\ TimerValue'[t] = now')
              /\ (IterateStep /\ FiredIn(t)') => TimerValue'[t] = now'
        /\ t_set_outputs' # t_set_outputs =>
              \/ FiredIn("t_set_outputs")' /\ t_set_outputs' = now'
              \/ "duty" \in accepted' /\ t_set_outputs' = 0
        /\ (IterateStep /\ "duty" \in accepted') => t_set_outputs' = 0
        /\ (IterateStep /\ FiredIn("t_set_outputs")') => t_set_outputs' = now'
      ]_vars

\* t_set_outputs is back at 0 after the timer path had set it
C7_OutputTimerReset ==
    /\ pc = "console"
    /\ "duty" \in accepted
    /\ t_set_outputs = 0
    /\ last_fire.t_set_outputs > 0

\* C8 (as the specification states it): in a pass in which a duty, a
\* temperature or a tachometer frequency was accepted, update_outputs runs
\* after the sampling and leaves every output at the value calculated from
\* the stored samples.
C8_AnySampleUpdates ==
    (PassDone /\ accepted # {}) =>
        /\ upd_calls = 1
        /\ \A i \in Fans : ~FanGate(st, cfg, i)
        /\ \A i \in MbFans : ~TachoGate(st, cfg, i)

\* C8 (amended): in a pass in which a duty or a temperature was accepted,
\* change is set, update_outputs runs once, after the sampling, and leaves
\* every output at the value calculated from the stored samples; an accepted
\* tachometer frequency sets no flag.
C8_DutyOrTempUpdates ==
    /\ (PassDone /\ accepted \cap {"duty", "temp"} # {}) =>
          /\ change > 0
          /\ upd_calls = 1
          /\ fired[Len(fired)] = "update_outputs"
          /\ \A i \in Fans : ~FanGate(st, cfg, i) /\ pwm_hw[i] = st.fan_duty[i]
          /\ \A i \in MbFans : ~TachoGate(st, cfg, i)
    /\ (PassDone /\ accepted \cap {"duty", "temp"} = {}) => change = 0

\* a duty and a temperature were accepted; the update programmed a fan and,
\* with a frequency accepted in an earlier pass, a tacho output
C8_DutyAndTempAccepted ==
    /\ pc = "console"
    /\ accepted = {"duty", "temp"}
    /\ upd_calls = 1
    /\ Called("pwm", 1)
    /\ Called("tacho", 1)

\* C9: watchdog_enable is called once, before the first pass of the loop,
\* and every pass ends with one watchdog_update, whatever fired, changed or
\* was read in it.
C9_WatchdogOncePerPass ==
    [][ /\ wd_enabled' = IF pc' \in {"usb_wait", "setup", "launch"} THEN 0 ELSE 1
        /\ pc = "launch" => (pc' = "loop" /\ wd_updates' = 0)
        /\ pc = "loop" => (pc' = "console" /\ wd_updates' = 0)
        /\ pc = "console" => (pc' \in {"console", "watchdog"} /\ wd_updates' = 0)
        /\ pc = "watchdog" => (pc' = "loop" /\ wd_updates' = 1)
      ]_vars

C9_RefreshedAfterBusyPass ==
    /\ pc = "loop"
    /\ wd_enabled = 1
    /\ wd_updates = 1
    /\ change > 0
    /\ upd_calls = 1
    /\ i_ptr = 1

----------------------------------------------------------------------------
(* Termination of the console pump, checked under SpecLive *)

\* C10 (as the specification states it): the console pump of every pass
\* ends, so that the pass reaches watchdog_update.
C10_PumpYields == (pc = "console") ~> (pc = "watchdog")

----------------------------------------------------------------------------
(* Properties of the boot and the hardware watchdog, checked under SpecBoot *)

\* C11: when the watchdog has not been refreshed for longer than its
\* timeout the next thing that happens is a reset by the watchdog; a reset
\* clears rebooted_by_watchdog, setup() of the boot that follows sets it
\* exactly when the watchdog caused the reset, and nothing else changes it.
C11_WatchdogRebootFlag ==
    [][ /\ Expired => (pc' = "usb_wait" /\ caused_reboot' /\ boots' = boots + 1)
        /\ boots' # boots =>
              (rebooted_by_watchdog' = FALSE /\ caused_reboot' = Expired)
        /\ boots' = boots =>
              /\ caused_reboot' = caused_reboot
              /\ pc = "setup" => rebooted_by_watchdog' = caused_reboot
              /\ pc # "setup" => rebooted_by_watchdog' = rebooted_by_watchdog
        /\ pc' \notin {"usb_wait", "setup"} => rebooted_by_watchdog' = caused_reboot'
      ]_vars

\* the loop runs again after a reset by the watchdog, and the flag is set
C11_FlagSetAfterWatchdogReset ==
    /\ pc = "loop"
    /\ boots >= 1
    /\ caused_reboot
    /\ rebooted_by_watchdog
    /\ wd_updates = 1

\* the console connects during the wait for USB serial of this boot
UsbConnects == usb_at <= UsbPolls

\* C14: the wait for USB serial ends and setup() goes on, whether a console
\* connects or not: while it runs every poll so far has failed and has been
\* followed by one 250 ms sleep; it ends at the first poll that finds a
\* connection, without a sleep after it, or after 10 polls and 10 sleeps.
C14_UsbWaitEnds ==
    /\ [](/\ usb_polls <= UsbPolls
          /\ pc = "usb_wait" =>
                /\ usb_polls < usb_at
                /\ usb_sleeps = usb_polls
                /\ now = UsbSleep * usb_sleeps
          /\ pc # "usb_wait" =>
                /\ usb_polls = IF UsbConnects THEN usb_at ELSE UsbPolls
                /\ usb_sleeps = IF UsbConnects THEN usb_at - 1 ELSE UsbPolls)
    /\ (pc = "usb_wait") ~> (pc = "setup")

\* no console connected: setup() goes on after 10 polls and 2500 ms
C14_ProceedsWithoutConsole ==
    /\ pc = "setup"
    /\ ~UsbConnects
    /\ usb_polls = UsbPolls
    /\ now = UsbPolls * UsbSleep

\* C12: core 1 registers as lockout victim before its first sample; a sample
\* is taken only by a registered victim outside a lockout and stores the
\* signal as it is at that moment; the lockout is taken and released only
\* with a registered victim and neither takes nor changes a sample; the
\* stored sample changes only by a new sample; and outside a lockout the
\* loop of core 1 can always take its next sample, with no step of core 0.
C12_LockoutCycle ==
    /\ []((pc1 = "loop" /\ ~lockout) => ENABLED Core1Loop)
    /\ [](pc1 = "start" => (cap.n = 0 /\ cap.since = 0 /\ ~lockout_victim))
    /\ [][ /\ cap.n' # cap.n =>
                 /\ lockout_victim /\ ~lockout /\ ~lockout'
                 /\ tacho_in' = tacho_sig
                 /\ cap.since' >= 1
           /\ tacho_in' # tacho_in => cap.n' # cap.n
           /\ lockout' # lockout =>
                 /\ lockout_victim
                 /\ tacho_in' = tacho_in /\ cap.n' = cap.n
           /\ lockout => (cap' = cap \/ ~lockout')
         ]_vars

\* core 0 has taken and released the lockout, the signal changed, and core 1
\* has sampled the new signal since
C12_SampledAfterRelease ==
    /\ cap.cycles >= 1 /\ cap.since >= 1 /\ ~lockout
    /\ tacho_in = tacho_sig /\ tacho_in # 0

\* a step of core 1: its start, or a pass of its loop
Core1Step == pc1 # "off" /\ (pc1' # pc1 \/ cap.n' # cap.n)

\* a step writes system_state, or programs an output
WritesOutputs ==
    \/ st' # st
    \/ pwm_hw' # pwm_hw \/ tacho_hw' # tacho_hw
    \/ drv_calls' # drv_calls /\ drv_calls' # <<>>

\* C13: under every interleaving of the two cores, a step of core 1 leaves
\* every field of system_state, the outputs and the driver calls as they
\* are and changes only the capture and its own tick; and system_state and
\* the outputs are written only by a step of core 0 (setup, or a pass of the
\* loop), in which core 1 takes no step.
C13_OutputsOwnedByCore0 ==
    [][ /\ Core1Step =>
              /\ st' = st /\ outVars' = outVars /\ pc' = pc
              /\ change' = change /\ timerVars' = timerVars
        /\ WritesOutputs =>
              /\ pc \in {"setup", "loop"} /\ pc' # pc
              /\ ~Core1Step /\ tacho_in' = tacho_in
      ]_vars

\* core 1 has sampled a running fan, and a pass of core 0 has taken the
\* sample into fan_freq and programmed a tacho output
C13_SampleFedToOutputs ==
    /\ PassDone /\ FiredIn("t_poll_tacho")
    /\ cap.since >= 1 /\ tacho_in # 0 /\ st.fan_freq[1] = tacho_in
    /\ Called("tacho", 1)

\* the steps of a pass that record themselves in fired, in the order of the
\* source
TaskOrder ==
    <<"t_network", "t_led", "t_display", "t_poll_pwm", "t_temp", "t_poll_tacho",
      "t_set_outputs", "update_outputs">>

Position(t) == CHOOSE k \in DOMAIN TaskOrder : TaskOrder[k] = t

\* the stored outputs are what update_outputs leaves when it has read s
OutputsReflect(s, c) ==
    /\ \A i \in Fans :
          ~check_for_change(s.fan_duty[i], calculate_pwm_duty(s, c, i), OutputThreshold)
    /\ \A i \in MbFans :
          ~check_for_change(s.mbfan_freq[i], calculate_tacho_freq(s, c, i), OutputThreshold)

\* C15: the steps of every pass run in the order network, LED, display,
\* duty, temperature, frequency, output update, then the console pump, then
\* the watchdog refresh.  So an output update leaves the outputs as computed
\* from the samples stored in the same pass, and a command the pump
\* dispatches comes after the output update of its pass and leaves the
\* outputs alone: the first output update after it is that of a later pass.
C15_FixedOrder ==
    [][ /\ pc' # pc =>
              <<pc, pc'>> \in {<<"usb_wait", "setup">>, <<"setup", "launch">>,
                               <<"launch", "loop">>, <<"loop", "console">>,
                               <<"console", "watchdog">>, <<"watchdog", "loop">>}
        /\ IterateStep =>
              /\ \A j, k \in DOMAIN fired' :
                    j < k => Position(fired'[j]) < Position(fired'[k])
              /\ upd_calls' >= 1 => OutputsReflect(st', cfg)
              /\ dispatched' = dispatched /\ wd_updates' = 0
        /\ Len(dispatched') > Len(dispatched) =>
              /\ pc = "console" /\ pc' = "console"
              /\ st' = st /\ outVars' = outVars /\ wd_updates' = wd_updates
        /\ wd_updates' > wd_updates => (pc = "watchdog" /\ dispatched' = dispatched)
      ]_vars

\* a pass has stored a duty sample and programmed the fan from it, and its
\* pump has then dispatched a command
C15_SampleThenUpdateThenCommand ==
    /\ pc = "console" /\ Len(dispatched) = 1
    /\ "duty" \in accepted /\ Called("pwm", 1)
    /\ FiredIn("t_poll_pwm") /\ FiredIn("update_outputs")

\* the pump reads the byte at the head of the queue
ReadStep == pc = "console" /\ rx # <<>> /\ rx' = Tail(rx)

\* C16: a control byte (0xff or 0x00) is ignored whatever the buffer holds,
\* empty, partly filled or full: the buffer, the cursor and the memory
\* behind the buffer stay as they are, nothing is echoed and nothing is
\* dispatched.
C16_ControlIgnored ==
    [][ (ReadStep /\ IsControl(Head(rx))) =>
            /\ input_buf' = input_buf /\ i_ptr' = i_ptr
            /\ dispatched' = dispatched
            /\ last_echo' = ""
            /\ oob' = oob /\ led_state' = led_state /\ change' = change
      ]_vars

\* a 0xff has been read with a full buffer, and nothing has been dispatched
C16_IgnoredWithFullBuffer ==
    /\ script = Run(BufSize) \o <<XFF, 97>>
    /\ rx = <<97>>
    /\ i_ptr = BufSize /\ dispatched = <<>> /\ last_echo = ""

\* C17 (as the specification states it): in every reachable state the cursor
\* i_ptr lies between 0 and sizeof(input_buf), and every store into
\* input_buf, of a data byte or of the terminating NUL, has been at an index
\* from 0 to sizeof(input_buf) - 1: no store has left the array.
C17_WritesInBounds ==
    /\ i_ptr \in 0..BufSize
    /\ Len(input_buf) <= BufSize
    /\ oob = 0

\* C18: from the end of setup() on, at the top of the loop and at the end of
\* every pass, the stored fan_duty of every fan is the duty last passed to
\* set_pwm_duty_cycle for it (0, passed by setup(), until update_outputs
\* accepts a change), and the stored mbfan_freq of every motherboard fan
\* whose tacho output has been programmed is the frequency last passed to
\* set_tacho_output_freq for it.
C18_StoredIsProgrammed ==
    pc \in {"launch", "loop", "console", "watchdog"} =>
        /\ \A i \in Fans : st.fan_duty[i] = pwm_hw[i]
        /\ \A i \in MbFans : tacho_hw[i] # -1 => st.mbfan_freq[i] = tacho_hw[i]

\* a pass has ended with a fan running at a programmed non-zero duty and a
\* tacho output programmed to a non-zero frequency
C18_ProgrammedNonZero ==
    /\ PassDone
    /\ pwm_hw[1] # 0 /\ st.fan_duty[1] = pwm_hw[1]
    /\ tacho_hw[2] > 0 /\ st.mbfan_freq[2] = tacho_hw[2]

\* C19: after the duty task (the temperature task) has run, the stored
\* mbfan_duty (temp) of every channel is less than the sampling threshold
\* of 0.5 away from the rounded duty (the temperature) the task has just
\* read, however the readings moved before: the gate compares with the
\* stored value, so steps below the threshold do not add up.
C19_StoredNearSample ==
    /\ \A i \in MbFans : Abs(st.mbfan_duty[i] - sampled.duty[i]) < SampleThreshold
    /\ \A i \in Sensors : Abs(st.temp[i] - sampled.temp[i]) < SampleThreshold

\* the temperature has risen in steps of 0.4: the second step was accepted,
\* the third is held back, 0.4 above the stored temperature
C19_DriftHeldBack ==
    /\ pc = "loop"
    /\ st.temp[1] = 2080 /\ sampled.temp[1] = 2120
    /\ st.mbfan_duty[1] = 100 /\ sampled.duty[1] = 100

\* C20: a CR or LF read while the buffer is empty dispatches nothing and
\* leaves the buffer empty; a CR or LF read while the buffer holds bytes
\* dispatches exactly one line; no line handed to process_command is empty;
\* and after every CR or LF the buffer is empty.  So of a CR LF pair that
\* ends a non-empty line the CR dispatches the line once and the LF nothing.
C20_NoEmptyDispatch ==
    /\ []((Consumed >= 1 /\ IsTerminator(script[Consumed])) => i_ptr = 0)
    /\ [][ ReadStep =>
              /\ (IsTerminator(Head(rx)) /\ i_ptr = 0) =>
                    (dispatched' = dispatched /\ i_ptr' = 0)
              /\ (IsTerminator(Head(rx)) /\ i_ptr > 0) =>
                    (Len(dispatched') = Len(dispatched) + 1 /\ i_ptr' = 0)
              /\ \A k \in DOMAIN dispatched' : dispatched'[k] # <<>>
         ]_vars

\* the line a CR LF has been read: one dispatch, of the line a
C20_OneDispatchForCrLf ==
    /\ script = <<97, CR, LF>> /\ rx = <<>>
    /\ dispatched = << <<97>> >> /\ i_ptr = 0

============================================================================
